---- MODULE Spec2Model ----
(***************************************************************************)
(* State-machine model of the Todo application (src/todos): the Todo and   *)
(* Profile tables, the User table of django.contrib.auth, the browser      *)
(* sessions, and one action per request handler of views.py / admin.py.    *)
(*                                                                         *)
(* Conventions.  A nullable value is a sequence of length <= 1: None is    *)
(* <<>> and Some(x) is <<x>>.  Text that the code measures or trims is a   *)
(* sequence of one-character strings.  Dates are day numbers.              *)
(* `last` is the response to the most recent request (what the client      *)
(* observes): route, method, acting identity, status code, flash message,  *)
(* whether the owner-scoped lookup found the object, and the listed pks.   *)
(* `pending` holds the requests that have validated their form and not yet *)
(* saved it (empty where a request is modelled as one step).               *)
(* `creator` is a history variable: who issued the create request of each  *)
(* stored task.  The free-text description field of Todo has no rule and   *)
(* no reader in the handlers and is left out of the records.               *)
(***************************************************************************)
EXTENDS Integers, Sequences, FiniteSets, TLC

VARIABLES users, profiles, session, todos, nextPk, creator, today, last,
          pending

vars == <<users, profiles, session, todos, nextPk, creator, today, last,
         pending>>

store == <<users, profiles, todos>>

(* ------------------------------ bounds -------------------------------- *)

MaxTodos == 2
MaxDay == 1

(* --------------------------- nullable values -------------------------- *)

None == <<>>
Some(x) == <<x>>

(* ------------------------------ inputs -------------------------------- *)

Clients == {"c1"}
Methods == {"GET", "POST"}
Pks == 1..MaxTodos
Usernames == {"ann", "bob"}
Emails == {"ann@x.io", "Ann@x.io"}

(* What a client can put in the POST body of the task form.  The keys user *)
(* and completed are not form fields; a client can still send them.        *)
TodoPost(title, priority, due_date, user, completed) ==
    [title |-> title, priority |-> priority, due_date |-> due_date,
     user |-> user, completed |-> completed]

TodoPosts ==
    { TodoPost(<<" ", "a", "b", "c", " ">>, 3, None, 2, TRUE),
      TodoPost(<<"a", "b", "c">>, 5, Some(MaxDay), 1, FALSE),
      TodoPost(<<"a", "b", "c">>, 3, Some(0), 1, FALSE),
      TodoPost(<<"a", "b">>, 3, None, 1, FALSE),
      TodoPost(<<" ", "a", "b", " ">>, 3, None, 1, FALSE),
      TodoPost(<<" ", " ">>, 3, None, 1, FALSE),
      TodoPost(<<"a", "b", "c">>, 0, None, 1, FALSE) }

(* ----------------------------- messages ------------------------------- *)

MsgNone == ""
MsgCreated == "created successfully!"
MsgUpdated == "updated successfully!"
MsgDeleted == "has been deleted successfully!"
MsgNoPermission == "You don't have permission to delete this task."
MsgNotFound == "Task not found or already deleted."
MsgDeleteError == "An error occurred while deleting the task."
MsgCompleted == "completed."
MsgActive == "marked as active."
MsgWelcome == "Account created successfully!"
MsgWelcomeBack == "Welcome back"
MsgCorrect == "Please correct the errors below."
MsgLoggedOut == "You have been successfully logged out."
MsgProfileUpdated == "Your profile has been updated!"
MsgAdminMissing == "doesn't exist. Perhaps it was deleted?"

(* The response record.  counts is <<total, active, completed, overdue>>   *)
(* on a rendered list; form echoes the account data that was submitted.    *)
Response(op, method, user, pk, status, msg, found, listed, counts, form) ==
    [op |-> op, method |-> method, user |-> user, pk |-> pk,
     status |-> status, msg |-> msg, found |-> found, listed |-> listed,
     counts |-> counts, form |-> form]

TaskResponse(op, method, user, pk, status, msg, found, listed) ==
    Response(op, method, user, pk, status, msg, found, listed, <<>>, <<>>)

(* the answer to a request that carried form data or query parameters      *)
FormResponse(op, method, user, pk, status, msg, found, listed, form) ==
    Response(op, method, user, pk, status, msg, found, listed, <<>>, form)

AccountResponse(op, method, user, status, msg, form) ==
    Response(op, method, user, 0, status, msg, FALSE, {}, <<>>, form)

(* login_required / LoginRequiredMixin: an anonymous request is redirected *)
(* to the login page before the view body runs.                            *)
LoginRedirect(op, method, pk) ==
    TaskResponse(op, method, None, pk, 302, MsgNone, FALSE, {})

IsAuthenticated(c) == session[c] # None

(* ------------------------- Todo: pure functions ----------------------- *)

RECURSIVE LStrip(_)
LStrip(s) == IF s # <<>> /\ Head(s) = " " THEN LStrip(Tail(s)) ELSE s

RECURSIVE RStrip(_)
RStrip(s) ==
    IF s # <<>> /\ s[Len(s)] = " " THEN RStrip(SubSeq(s, 1, Len(s) - 1)) ELSE s

(* str.strip() *)
Strip(s) == RStrip(LStrip(s))

MinTitleLen == 3

(* clean_title measuring the title with its padding                        *)
clean_title_NoStrip(title) ==
    IF Len(title) < MinTitleLen THEN None ELSE Some(Strip(title))

(* TodoForm.clean_title: the trimmed title, or None when it is rejected.   *)
clean_title(title) ==
    IF Len(Strip(title)) < MinTitleLen THEN None ELSE Some(Strip(title))

(* TodoForm.clean_due_date: TRUE when the date is accepted.                *)
clean_due_date(due_date, now) ==
    IF due_date # None THEN ~(due_date[1] < now) ELSE TRUE

(* Todo.PRIORITY_CHOICES with the Min/MaxValueValidator.                   *)
MinPriority == 1
MaxPriority == 5
PRIORITY_CHOICES == MinPriority..MaxPriority

(* Meta.fields with the owner exposed                                      *)
TodoFormFieldsWithUser == {"title", "priority", "due_date", "user"}

(* TodoForm.Meta.fields: the only keys of a POST the form binds.           *)
TodoFormFields == {"title", "priority", "due_date"}

(* Todo.title as the ModelForm's CharField cleans it: the value stripped,  *)
(* required, and at most max_length characters long; None when rejected.   *)
MaxTitleLen == 200
TitleField(title) ==
    IF Strip(title) = <<>> \/ Len(Strip(title)) > MaxTitleLen THEN None
    ELSE Some(Strip(title))

(* TodoForm.is_valid(): the field's own rules, then clean_<field>          *)
TodoFormValid(post, now) ==
    /\ TitleField(post.title) # None
    /\ clean_title(post.title) # None
    /\ post.priority \in PRIORITY_CHOICES
    /\ clean_due_date(post.due_date, now)

(* ModelForm.save(): the instance with the bound fields overwritten.       *)
Bind(inst, field, value) ==
    IF field \in TodoFormFields THEN value ELSE inst[field]

TodoFormApply(inst, post) ==
    [user |-> Bind(inst, "user", Some(post.user)),
     title |-> Bind(inst, "title", Strip(post.title)),
     completed |-> Bind(inst, "completed", post.completed),
     priority |-> Bind(inst, "priority", post.priority),
     due_date |-> Bind(inst, "due_date", post.due_date)]

(* A Todo() instance before the form is bound: the field defaults.         *)
NewTodo == [user |-> None, title |-> <<>>, completed |-> FALSE,
            priority |-> 3, due_date |-> None]

(* is_overdue with the due day itself counted as late                     *)
is_overdue_OnDueDay(t, now) ==
    IF t.due_date # None /\ ~t.completed THEN t.due_date[1] <= now ELSE FALSE

(* Todo.is_overdue *)
is_overdue(t, now) ==
    IF t.due_date # None /\ ~t.completed THEN t.due_date[1] < now ELSE FALSE

(* Todo.days_until_due *)
days_until_due(t, now) ==
    IF t.due_date # None THEN Some(t.due_date[1] - now) ELSE None

(* Todo.save without its guard                                             *)
TodoSaveUnchecked(isNew, t) == TRUE

(* Todo.save: TRUE when the row is written, FALSE when ValueError is raised *)
TodoSaveOk(isNew, t) == ~(isNew /\ t.user = None)

(* Todo.objects.filter(user=u): the pks of u's rows.                       *)
UserTodos(u) == {pk \in DOMAIN todos : todos[pk].user = u}

(* str.isdigit() and int() on the priority query parameter.  A character *)
(* outside ASCII is written as its code point.  isdigit() is true of the   *)
(* decimal digits of every script (here ASCII, Arabic-Indic, fullwidth)    *)
(* and of the other digit characters (superscripts, circled digits);       *)
(* int() reads the decimal digits only and raises ValueError on the rest.  *)
AsciiDigits == <<"0", "1", "2", "3", "4", "5", "6", "7", "8", "9">>
ArabicIndicDigits ==
    <<"U+0660", "U+0661", "U+0662", "U+0663", "U+0664",
      "U+0665", "U+0666", "U+0667", "U+0668", "U+0669">>
FullwidthDigits ==
    <<"U+FF10", "U+FF11", "U+FF12", "U+FF13", "U+FF14",
      "U+FF15", "U+FF16", "U+FF17", "U+FF18", "U+FF19">>
DigitScripts == {AsciiDigits, ArabicIndicDigits, FullwidthDigits}

DecimalDigits == UNION {{script[i] : i \in DOMAIN script} : script \in DigitScripts}
OtherDigits ==
    {"U+00B2", "U+00B3", "U+00B9", "U+2070", "U+2074", "U+2460", "U+2461",
     "U+2462"}
Digits == DecimalDigits \cup OtherDigits

DigitVal(ch) ==
    CHOOSE v \in 0..9 : \E script \in DigitScripts : script[v + 1] = ch

IsDigit(s) == s # <<>> /\ \A i \in 1..Len(s) : s[i] \in Digits

IsDecimal(s) == s # <<>> /\ \A i \in 1..Len(s) : s[i] \in DecimalDigits

RECURSIVE DecimalValue(_)
DecimalValue(s) ==
    IF s = <<>> THEN 0
    ELSE 10 * DecimalValue(SubSeq(s, 1, Len(s) - 1)) + DigitVal(s[Len(s)])

(* int(s): the integer, None when ValueError is raised *)
ToInt(s) ==
    LET t == Strip(s)
        signed == t # <<>> /\ t[1] \in {"+", "-"}
        body == IF signed THEN Tail(t) ELSE t
    IN  IF ~IsDecimal(body) THEN None
        ELSE IF signed /\ t[1] = "-" THEN Some(0 - DecimalValue(body))
        ELSE Some(DecimalValue(body))

StatusParams == {"all", "active"}
PriorityParams == {<<>>, <<"3">>, <<"x">>}

(* TodoListView.get_context_data: the filtered queryset, None when int()   *)
(* raises ValueError on a parameter that passed isdigit().                 *)
ListQueryset(u, status, priority) ==
    LET user_todos == UserTodos(u)
        byStatus ==
            IF status = "active"
            THEN {pk \in user_todos : ~todos[pk].completed}
            ELSE IF status = "completed"
            THEN {pk \in user_todos : todos[pk].completed}
            ELSE user_todos
        number == ToInt(priority)
    IN  IF priority # <<>> /\ IsDigit(priority)
        THEN IF number = None THEN None
             ELSE Some({pk \in byStatus : todos[pk].priority = number[1]})
        ELSE Some(byStatus)

(* TodoListView.get_context_data: the statistics.                          *)
ListCounts(u) ==
    LET user_todos == UserTodos(u)
    IN  << Cardinality(user_todos),
           Cardinality({pk \in user_todos : ~todos[pk].completed}),
           Cardinality({pk \in user_todos : todos[pk].completed}),
           Cardinality({pk \in user_todos : is_overdue(todos[pk], today)}) >>

(* ---------------------------- task handlers --------------------------- *)

(* request.GET of the list route *)
ListQuery(status, priority) == [status |-> status, priority |-> priority]

(* GET / : TodoListView *)
TodoList(c, status, priority) ==
    /\ last' =
         IF ~IsAuthenticated(c) THEN LoginRedirect("list", "GET", 0)
         ELSE LET queryset == ListQueryset(session[c], status, priority)
              IN  IF queryset = None
                  THEN FormResponse("list", "GET", session[c], 0, 500,
                                    MsgNone, FALSE, {},
                                    ListQuery(status, priority))
                  ELSE Response("list", "GET", session[c], 0, 200, MsgNone,
                                FALSE, queryset[1], ListCounts(session[c]),
                                ListQuery(status, priority))
    /\ UNCHANGED <<users, profiles, session, todos, nextPk, creator, today,
                   pending>>

(* GET/POST /create/ : TodoCreateView with form_valid                      *)
CreatedTodo(u, post) ==
    [TodoFormApply(NewTodo, post) EXCEPT !.user = u]

TodoCreate(c, method, post) ==
    /\ nextPk <= MaxTodos
    /\ IF ~IsAuthenticated(c)
       THEN /\ last' = LoginRedirect("create", method, 0)
            /\ UNCHANGED <<todos, nextPk, creator>>
       ELSE IF method = "GET"
       THEN /\ last' = TaskResponse("create", method, session[c], 0, 200,
                                    MsgNone, FALSE, {})
            /\ UNCHANGED <<todos, nextPk, creator>>
       ELSE IF ~TodoFormValid(post, today)
       THEN /\ last' = FormResponse("create", method, session[c], 0, 200,
                                    MsgNone, FALSE, {}, post)
            /\ UNCHANGED <<todos, nextPk, creator>>
       ELSE IF ~TodoSaveOk(TRUE, CreatedTodo(session[c], post))
       THEN /\ last' = FormResponse("create", method, session[c], 0, 500,
                                    MsgNone, FALSE, {}, post)
            /\ UNCHANGED <<todos, nextPk, creator>>
       ELSE /\ todos' = (nextPk :> CreatedTodo(session[c], post)) @@ todos
            /\ creator' = (nextPk :> session[c]) @@ creator
            /\ nextPk' = nextPk + 1
            /\ last' = FormResponse("create", method, session[c], nextPk, 302,
                                    MsgCreated, FALSE, {}, post)
    /\ UNCHANGED <<users, profiles, session, today, pending>>

(* get_queryset().get(pk=pk) of the update, delete and toggle routes:      *)
(* the row is found only among the caller's own rows.                      *)
OwnedBy(u, pk) == pk \in UserTodos(u)

(* GET/POST /update/<pk>/ : TodoUpdateView *)
TodoUpdate(c, method, pk, post) ==
    /\ IF ~IsAuthenticated(c)
       THEN /\ last' = LoginRedirect("update", method, pk)
            /\ UNCHANGED todos
       ELSE IF ~OwnedBy(session[c], pk)
       THEN /\ last' = TaskResponse("update", method, session[c], pk, 404,
                                    MsgNone, FALSE, {})
            /\ UNCHANGED todos
       ELSE IF method = "GET"
       THEN /\ last' = TaskResponse("update", method, session[c], pk, 200,
                                    MsgNone, TRUE, {})
            /\ UNCHANGED todos
       ELSE IF ~TodoFormValid(post, today)
       THEN /\ last' = FormResponse("update", method, session[c], pk, 200,
                                    MsgNone, TRUE, {}, post)
            /\ UNCHANGED todos
       ELSE /\ todos' = [todos EXCEPT ![pk] = TodoFormApply(todos[pk], post)]
            /\ last' = FormResponse("update", method, session[c], pk, 302,
                                    MsgUpdated, TRUE, {}, post)
    /\ UNCHANGED <<users, profiles, session, nextPk, creator, today, pending>>

(* a delete() that answers without deleting                                *)
RemoveNothing(f, pk) == f

Remove(f, pk) == [k \in DOMAIN f \ {pk} |-> f[k]]

(* The handler View.dispatch picks for a request to TodoDeleteView.  GET   *)
(* is DeleteView.get and the HTTP method DELETE is the view's own          *)
(* delete().  POST depends on the installed Django, which the repository   *)
(* does not pin: before 4.0 DeleteView.post calls self.delete(), from 4.0  *)
(* on BaseDeleteView.post runs get_object() and form_valid(), which        *)
(* deletes the object and never enters the overridden delete().            *)
DeleteDispatch == {"delete", "form_valid"}

RunsDelete(method, dispatch) ==
    method = "DELETE" \/ (method = "POST" /\ dispatch = "delete")

(* /delete/<pk>/ : TodoDeleteView.  GET renders the confirmation page (404 *)
(* when the scoped lookup misses).  In delete(), get_object() raises       *)
(* Http404 on a miss, which is not Todo.DoesNotExist and so lands in       *)
(* `except Exception`; a failure of the store in self.object.delete()      *)
(* (dbError) lands there too.  In form_valid() neither is caught: the miss *)
(* is a 404, the store failure a 500, and a deletion sets no message.      *)
TodoDelete(c, method, pk, dbError, dispatch) ==
    /\ IF ~IsAuthenticated(c)
       THEN /\ last' = LoginRedirect("delete", method, pk)
            /\ UNCHANGED <<todos, creator>>
       ELSE IF method = "GET"
       THEN /\ last' = IF OwnedBy(session[c], pk)
                       THEN TaskResponse("delete", method, session[c], pk,
                                         200, MsgNone, TRUE, {})
                       ELSE TaskResponse("delete", method, session[c], pk,
                                         404, MsgNone, FALSE, {})
            /\ UNCHANGED <<todos, creator>>
       ELSE IF ~OwnedBy(session[c], pk)
       THEN /\ last' = IF RunsDelete(method, dispatch)
                       THEN TaskResponse("delete", method, session[c], pk,
                                         302, MsgDeleteError, FALSE, {})
                       ELSE TaskResponse("delete", method, session[c], pk,
                                         404, MsgNone, FALSE, {})
            /\ UNCHANGED <<todos, creator>>
       ELSE IF RunsDelete(method, dispatch) /\ todos[pk].user # session[c]
       THEN /\ last' = TaskResponse("delete", method, session[c], pk, 302,
                                    MsgNoPermission, TRUE, {})
            /\ UNCHANGED <<todos, creator>>
       ELSE IF dbError
       THEN /\ last' = IF RunsDelete(method, dispatch)
                       THEN TaskResponse("delete", method, session[c], pk,
                                         302, MsgDeleteError, TRUE, {})
                       ELSE TaskResponse("delete", method, session[c], pk,
                                         500, MsgNone, TRUE, {})
            /\ UNCHANGED <<todos, creator>>
       ELSE /\ todos' = Remove(todos, pk)
            /\ creator' = Remove(creator, pk)
            /\ last' = TaskResponse("delete", method, session[c], pk, 302,
                                    IF RunsDelete(method, dispatch)
                                    THEN MsgDeleted ELSE MsgNone,
                                    TRUE, {})
    /\ UNCHANGED <<users, profiles, session, nextPk, today, pending>>

(* "mark as done" instead of a toggle                                      *)
ToggledSetTrue(t) == [t EXCEPT !.completed = TRUE]

(* todo.completed = not todo.completed                                     *)
Toggled(t) == [t EXCEPT !.completed = ~t.completed]

(* toggle_completion without @login_required: the lookup with an          *)
(* AnonymousUser raises, and the request ends in a server error.           *)
toggle_completion_NoLogin(c, method, pk) ==
    /\ IF ~IsAuthenticated(c)
       THEN /\ last' = TaskResponse("toggle", method, None, pk, 500,
                                    MsgNone, FALSE, {})
            /\ UNCHANGED todos
       ELSE IF ~OwnedBy(session[c], pk)
       THEN /\ last' = TaskResponse("toggle", method, session[c], pk, 404,
                                    MsgNone, FALSE, {})
            /\ UNCHANGED todos
       ELSE /\ todos' = [todos EXCEPT ![pk] = Toggled(todos[pk])]
            /\ last' = TaskResponse("toggle", method, session[c], pk, 302,
                                    IF Toggled(todos[pk]).completed
                                    THEN MsgCompleted ELSE MsgActive,
                                    TRUE, {})
    /\ UNCHANGED <<users, profiles, session, nextPk, creator, today, pending>>

(* /toggle/<pk>/ : toggle_completion.  The view does not look at the       *)
(* request method.                                                         *)
toggle_completion(c, method, pk) ==
    /\ IF ~IsAuthenticated(c)
       THEN /\ last' = LoginRedirect("toggle", method, pk)
            /\ UNCHANGED todos
       ELSE IF ~OwnedBy(session[c], pk)
       THEN /\ last' = TaskResponse("toggle", method, session[c], pk, 404,
                                    MsgNone, FALSE, {})
            /\ UNCHANGED todos
       ELSE /\ todos' = [todos EXCEPT ![pk] = Toggled(todos[pk])]
            /\ last' = TaskResponse("toggle", method, session[c], pk, 302,
                                    IF Toggled(todos[pk]).completed
                                    THEN MsgCompleted ELSE MsgActive,
                                    TRUE, {})
    /\ UNCHANGED <<users, profiles, session, nextPk, creator, today, pending>>

(* ---------------------------- admin site ------------------------------ *)

(* TodoAdmin.fieldsets: the editable fields of the admin form (created_at  *)
(* and updated_at are read-only).  The owner is not among them.            *)
AdminFields == {"title", "priority", "due_date", "completed"}

AdminBind(inst, field, value) ==
    IF field \in AdminFields THEN value ELSE inst[field]

AdminFormApply(inst, post) ==
    [user |-> AdminBind(inst, "user", Some(post.user)),
     title |-> AdminBind(inst, "title", Strip(post.title)),
     completed |-> AdminBind(inst, "completed", post.completed),
     priority |-> AdminBind(inst, "priority", post.priority),
     due_date |-> AdminBind(inst, "due_date", post.due_date)]

(* The admin's ModelForm: the model's own field rules (a non-blank title,  *)
(* a priority among the choices); TodoForm's rules do not apply.           *)
AdminFormValid(post) ==
    /\ TitleField(post.title) # None
    /\ post.priority \in PRIORITY_CHOICES

(* admin add view: Todo.save() refuses a new row without a user.           *)
AdminAdd(post) ==
    /\ nextPk <= MaxTodos
    /\ IF ~AdminFormValid(post)
       THEN /\ last' = TaskResponse("admin_add", "POST", None, 0, 200,
                                    MsgNone, FALSE, {})
            /\ UNCHANGED <<todos, nextPk, creator>>
       ELSE IF ~TodoSaveOk(TRUE, AdminFormApply(NewTodo, post))
       THEN /\ last' = TaskResponse("admin_add", "POST", None, 0, 500,
                                    MsgNone, FALSE, {})
            /\ UNCHANGED <<todos, nextPk, creator>>
       ELSE /\ todos' = (nextPk :> AdminFormApply(NewTodo, post)) @@ todos
            /\ creator' = (nextPk :> None) @@ creator
            /\ nextPk' = nextPk + 1
            /\ last' = TaskResponse("admin_add", "POST", None, nextPk, 302,
                                    MsgNone, FALSE, {})
    /\ UNCHANGED <<users, profiles, session, today, pending>>

(* admin change view, and the list_editable completed column.  An id     *)
(* that is not in the table is answered by the redirect to the admin       *)
(* index with a warning.                                                   *)
AdminChange(pk, post) ==
    /\ IF pk \notin DOMAIN todos
       THEN /\ last' = TaskResponse("admin_change", "POST", None, pk, 302,
                                    MsgAdminMissing, FALSE, {})
            /\ UNCHANGED todos
       ELSE IF ~AdminFormValid(post)
       THEN /\ last' = TaskResponse("admin_change", "POST", None, pk, 200,
                                    MsgNone, TRUE, {})
            /\ UNCHANGED todos
       ELSE /\ todos' = [todos EXCEPT ![pk] = AdminFormApply(todos[pk], post)]
            /\ last' = TaskResponse("admin_change", "POST", None, pk, 302,
                                    MsgNone, TRUE, {})
    /\ UNCHANGED <<users, profiles, session, nextPk, creator, today, pending>>

(* admin delete view, confirmed: the row is removed, whoever owns it.      *)
AdminDelete(pk) ==
    /\ IF pk \notin DOMAIN todos
       THEN /\ last' = TaskResponse("admin_delete", "POST", None, pk, 302,
                                    MsgAdminMissing, FALSE, {})
            /\ UNCHANGED <<todos, creator>>
       ELSE /\ todos' = Remove(todos, pk)
            /\ creator' = Remove(creator, pk)
            /\ last' = TaskResponse("admin_delete", "POST", None, pk, 302,
                                    MsgNone, TRUE, {})
    /\ UNCHANGED <<users, profiles, session, nextPk, today, pending>>

(* the delete_selected action of the admin change list, confirmed: every   *)
(* selected row that is in the table is removed.                           *)
RECURSIVE RemoveAll(_, _)
RemoveAll(f, pks) ==
    IF pks = {} THEN f
    ELSE LET pk == CHOOSE k \in pks : TRUE
         IN  RemoveAll(Remove(f, pk), pks \ {pk})

AdminDeleteSelected(pks) ==
    /\ todos' = RemoveAll(todos, pks)
    /\ creator' = RemoveAll(creator, pks)
    /\ last' = TaskResponse("admin_delete_selected", "POST", None, 0, 302,
                            MsgNone, FALSE, {})
    /\ UNCHANGED <<users, profiles, session, nextPk, today, pending>>

(* ------------------------ Profile: pure functions --------------------- *)

Abs(n) == IF n < 0 THEN 0 - n ELSE n
Max(a, b) == IF a >= b THEN a ELSE b

MaxSide == 300

(* Image.thumbnail((300, 300)) of an image with a side over 300.  The size *)
(* it computes depends on the Pillow release installed, which the          *)
(* repository does not pin, so every release's result is an outcome.       *)

(* Pillow before 7.0: int(max(y * 300 / x, 1)) on the width, then on the   *)
(* height, each truncating.                                                *)
ThumbnailTruncating(w, h) ==
    LET x1 == IF w > MaxSide THEN MaxSide ELSE w
        y1 == IF w > MaxSide THEN Max((h * MaxSide) \div w, 1) ELSE h
    IN  IF y1 > MaxSide
        THEN <<Max((x1 * MaxSide) \div y1, 1), MaxSide>>
        ELSE <<x1, y1>>

(* round(p / q) of Python 3: the nearest integer, the even one on a tie.   *)
RoundHalfEven(p, q) ==
    LET f == p \div q
    IN  IF 2 * (p % q) < q THEN f
        ELSE IF 2 * (p % q) > q THEN f + 1
        ELSE IF f % 2 = 0 THEN f ELSE f + 1

(* Pillow 7.0: max(round(y * 300 / x), 1) on the width, then on the height *)
ThumbnailRounding(w, h) ==
    LET x1 == IF w > MaxSide THEN MaxSide ELSE w
        y1 == IF w > MaxSide THEN Max(RoundHalfEven(h * MaxSide, w), 1) ELSE h
    IN  IF y1 > MaxSide
        THEN <<Max(RoundHalfEven(x1 * MaxSide, y1), 1), MaxSide>>
        ELSE <<x1, y1>>

(* Pillow 7.1 and later: round_aspect takes the floor or the ceiling of    *)
(* the exact side, whichever makes the ratio nearer to the original's (0   *)
(* wins when it is the floor), and never less than 1.  The two distances   *)
(* are compared as floats: when they are equal as exact numbers the        *)
(* rounding error of the floats decides, so both are outcomes.             *)
RoundAspect(f, c, distF, distC) ==
    IF distF < distC THEN {Max(f, 1)}
    ELSE IF distC < distF THEN {Max(c, 1)}
    ELSE {Max(f, 1), Max(c, 1)}

ThumbnailRoundAspect(w, h) ==
    IF h >= w
    THEN LET f == (MaxSide * w) \div h
             c == IF (MaxSide * w) % h = 0 THEN f ELSE f + 1
         IN  {<<x, MaxSide>> :
                x \in RoundAspect(f, c, Abs(MaxSide * w - f * h),
                                        Abs(MaxSide * w - c * h))}
    ELSE LET f == (MaxSide * h) \div w
             c == IF (MaxSide * h) % w = 0 THEN f ELSE f + 1
         IN  {<<MaxSide, y>> :
                y \in IF f = 0 THEN {1}
                      ELSE RoundAspect(f, c, Abs(w * f - MaxSide * h) * c,
                                             Abs(w * c - MaxSide * h) * f)}

(* the sizes img.thumbnail((300, 300)) can give a w x h image              *)
ThumbnailSizes(w, h) ==
    IF MaxSide >= w /\ MaxSide >= h THEN {<<w, h>>}
    ELSE {ThumbnailTruncating(w, h), ThumbnailRounding(w, h)}
           \cup ThumbnailRoundAspect(w, h)

Resized(img, size) == [img EXCEPT !.w = size[1], !.h = size[2]]

(* A stored file Image.open can read: it has content.  Image.save opens    *)
(* its target for writing before it encodes, so a save that raises in the  *)
(* encoder leaves the stored file with no content at all.                  *)
Readable(img) == img.size > 0

Emptied(img) == [img EXCEPT !.size = 0, !.w = 0, !.h = 0]

(* Profile.save looking at the height alone                                *)
ProfileSaveHeightOnly(img) ==
    IF img.h > MaxSide
    THEN {Resized(img, size) : size \in ThumbnailSizes(img.w, img.h)}
    ELSE {img}

(* Profile.save, completed: the images the resize step can leave stored.   *)
ProfileSave(img) ==
    IF img.h > MaxSide \/ img.w > MaxSide
    THEN {Resized(img, size) : size \in ThumbnailSizes(img.w, img.h)}
    ELSE {img}

(* str.lower() on the letters that occur in the file names below.          *)
LowerChar(ch) ==
    CASE ch = "J" -> "j" [] ch = "P" -> "p" [] ch = "G" -> "g"
      [] ch = "N" -> "n" [] ch = "B" -> "b" [] ch = "M" -> "m"
      [] OTHER -> ch

Lower(s) == [i \in 1..Len(s) |-> LowerChar(s[i])]

(* name.split('.')[-1] *)
RECURSIVE LastPart(_)
LastPart(s) ==
    IF s = <<>> THEN <<>>
    ELSE IF s[Len(s)] = "." THEN <<>>
    ELSE Append(LastPart(SubSeq(s, 1, Len(s) - 1)), s[Len(s)])

MaxImageBytes == 5 * 1024 * 1024

valid_extensions ==
    { <<"j", "p", "g">>, <<"j", "p", "e", "g">>, <<"p", "n", "g">>,
      <<"g", "i", "f">>, <<"w", "e", "b", "p">> }

(* ProfileUpdateForm.clean_image: TRUE when the file is accepted.          *)
clean_image(image) ==
    IF image # None
    THEN /\ ~(image[1].size > MaxImageBytes)
         /\ Lower(LastPart(image[1].name)) \in valid_extensions
    ELSE TRUE

(* default='default.jpg' *)
DefaultImage ==
    [name |-> <<"d", ".", "j", "p", "g">>, size |-> 1000, w |-> 300, h |-> 300]

(* the default picture as a first Profile.save leaves it *)
SavedDefault == CHOOSE stored \in ProfileSave(DefaultImage) : TRUE

(* The files a client can post to /profile/; None is a post without one.   *)
ImageUploads ==
    { None,
      Some([name |-> <<"l", ".", "P", "N", "G">>, size |-> 4000000,
            w |-> 4000, h |-> 2000]),
      Some([name |-> <<"h", ".", "j", "p", "g">>, size |-> 6000000,
            w |-> 400, h |-> 400]),
      Some([name |-> <<"x", ".", "b", "m", "p">>, size |-> 2000,
            w |-> 100, h |-> 100]) }

(* ---------------------------- account handlers ------------------------ *)

UserPks == 1..Len(users)

(* User.objects.filter(email=email) [.exclude(pk=self)] .exists()          *)
EmailExists(email, except) ==
    \E i \in UserPks : users[i].email = email /\ Some(i) # except

(* the unique constraint of User.username, as the ModelForm validates it   *)
UsernameExists(username, except) ==
    \E i \in UserPks : users[i].username = username /\ Some(i) # except

(* AbstractUser.clean(), run by the ModelForm before save(): the address  *)
(* with its domain part in lower case.  Addresses are atoms here, so the   *)
(* conversion is tabulated for the addresses with a capital in the domain. *)
normalize_email(email) ==
    CASE email = "ann@X.io" -> "ann@x.io"
      [] email = "Ann@X.io" -> "Ann@x.io"
      [] OTHER -> email

(* a clean_email that checks nothing                                       *)
RegisterCleanEmailNoCheck(email) == TRUE

(* RegisterForm.clean_email: TRUE when the address is accepted.            *)
RegisterCleanEmail(email) == ~EmailExists(email, None)

(* RegisterForm.is_valid(): pwOk is the identity provider's verdict on     *)
(* the two password fields.                                                *)
RegisterFormValid(username, email, pwOk) ==
    /\ ~UsernameExists(username, None)
    /\ RegisterCleanEmail(email)
    /\ pwOk

(* Profile.objects.get_or_create(user=u): the table after the call.        *)
GetOrCreateProfile(table, u) ==
    IF u \in DOMAIN table THEN table
    ELSE (u :> SavedDefault) @@ table

RegisterPost(username, email, pwOk) ==
    [username |-> username, email |-> email, pwOk |-> pwOk]

(* POST /register/ : RegisterView.post *)
Register(c, username, email, pwOk) ==
    /\ IF RegisterFormValid(username, email, pwOk)
       THEN /\ users' = Append(users, [username |-> username,
                                       email |-> normalize_email(email)])
            /\ profiles' = GetOrCreateProfile(profiles, Len(users) + 1)
            /\ session' = [session EXCEPT ![c] = Some(Len(users) + 1)]
            /\ last' = AccountResponse("register", "POST", session[c], 302,
                                       MsgWelcome,
                                       RegisterPost(username, email, pwOk))
       ELSE /\ last' = AccountResponse("register", "POST", session[c], 200,
                                       MsgCorrect,
                                       RegisterPost(username, email, pwOk))
            /\ UNCHANGED <<users, profiles, session>>
    /\ UNCHANGED <<todos, nextPk, creator, today, pending>>

(* authenticate(): the account the credentials belong to, if any.          *)
Authenticate(username, pwOk) ==
    {i \in UserPks : users[i].username = username /\ pwOk}

(* POST /login/ : LoginView.post *)
Login(c, username, pwOk) ==
    /\ IF Authenticate(username, pwOk) # {}
       THEN /\ session' = [session EXCEPT ![c] =
                             Some(CHOOSE i \in Authenticate(username, pwOk) : TRUE)]
            /\ last' = AccountResponse("login", "POST", session[c], 302,
                                       MsgWelcomeBack, <<>>)
       ELSE /\ last' = AccountResponse("login", "POST", session[c], 200,
                                       MsgCorrect, <<>>)
            /\ UNCHANGED session
    /\ UNCHANGED <<users, profiles, todos, nextPk, creator, today, pending>>

(* /logout/ : logout_view *)
logout_view(c) ==
    /\ IF ~IsAuthenticated(c)
       THEN /\ last' = LoginRedirect("logout", "POST", 0)
            /\ UNCHANGED session
       ELSE /\ session' = [session EXCEPT ![c] = None]
            /\ last' = TaskResponse("logout", "POST", session[c], 0, 302,
                                    MsgLoggedOut, FALSE, {})
    /\ UNCHANGED <<users, profiles, todos, nextPk, creator, today, pending>>

(* UserUpdateForm.is_valid() for the account u                             *)
UserUpdateFormValid(u, username, email) ==
    /\ ~UsernameExists(username, u)
    /\ ~EmailExists(email, u)

(* the image ProfileUpdateForm cleans: the posted file, else the stored one *)
BoundImage(stored, upload) == IF upload # None THEN upload ELSE Some(stored)

(* the two is_valid() calls of the profile view, and what it then saves    *)
ProfileSaveUser(u_valid, p_valid) == u_valid /\ p_valid
ProfileSaveImage(u_valid, p_valid) == u_valid /\ p_valid

ProfilePost(username, email, upload) ==
    [username |-> username, email |-> email, upload |-> upload]

(* GET/POST /profile/ : profile.  With both forms valid u_form.save() and  *)
(* p_form.save() run; Profile.save writes the row and then opens the       *)
(* stored file, and Image.open raises on a file without content: the       *)
(* request ends in a server error with the user and the row written.       *)
profile(c, method, username, email, upload) ==
    /\ IF ~IsAuthenticated(c)
       THEN /\ last' = LoginRedirect("profile", method, 0)
            /\ UNCHANGED <<users, profiles>>
       ELSE LET u == session[c][1]
                table == GetOrCreateProfile(profiles, u)
                u_valid == UserUpdateFormValid(session[c], username, email)
                p_valid == clean_image(BoundImage(table[u], upload))
                bound == BoundImage(table[u], upload)[1]
            IN  IF method = "GET"
                THEN /\ profiles' = table
                     /\ users' = users
                     /\ last' = AccountResponse("profile", method, session[c],
                                                200, MsgNone, <<>>)
                ELSE /\ users' =
                          IF ProfileSaveUser(u_valid, p_valid)
                          THEN [users EXCEPT ![u] = [username |-> username,
                                                     email |->
                                                       normalize_email(email)]]
                          ELSE users
                     /\ profiles' \in
                          IF ProfileSaveImage(u_valid, p_valid)
                          THEN IF Readable(bound)
                               THEN {[table EXCEPT ![u] = stored] :
                                       stored \in ProfileSave(bound)}
                               ELSE {[table EXCEPT ![u] = bound]}
                          ELSE {table}
                     /\ last' =
                          IF u_valid /\ p_valid
                          THEN IF Readable(bound)
                               THEN AccountResponse("profile", method,
                                       session[c], 302, MsgProfileUpdated,
                                       ProfilePost(username, email, upload))
                               ELSE AccountResponse("profile", method,
                                       session[c], 500, MsgNone,
                                       ProfilePost(username, email, upload))
                          ELSE AccountResponse("profile", method, session[c],
                                               200, MsgCorrect,
                                               ProfilePost(username, email, upload))
    /\ UNCHANGED <<session, todos, nextPk, creator, today, pending>>

(* POST /profile/ with both forms valid and a picture over the limit when  *)
(* img.save raises in the encoder (as for a picture whose mode the format  *)
(* named by its extension cannot hold): u_form.save() and super().save()   *)
(* have already written the user and the row, img.save has opened the      *)
(* stored file for writing, and the request is answered with a server      *)
(* error; the stored file is left without content.                         *)
profile_SaveRaises(c, username, email, upload) ==
    /\ IsAuthenticated(c)
    /\ LET u == session[c][1]
           table == GetOrCreateProfile(profiles, u)
           bound == BoundImage(table[u], upload)[1]
       IN  /\ UserUpdateFormValid(session[c], username, email)
           /\ clean_image(BoundImage(table[u], upload))
           /\ Readable(bound)
           /\ bound.h > MaxSide \/ bound.w > MaxSide
           /\ users' = [users EXCEPT ![u] = [username |-> username,
                                             email |->
                                               normalize_email(email)]]
           /\ profiles' = [table EXCEPT ![u] = Emptied(bound)]
           /\ last' = AccountResponse("profile", "POST", session[c], 500,
                                      MsgNone,
                                      ProfilePost(username, email, upload))
    /\ UNCHANGED <<session, todos, nextPk, creator, today, pending>>

(* ------------- the account handlers, one statement at a time ---------- *)
(* Two sessions are served at once: each request runs form.is_valid() as  *)
(* one step and its save() calls as a later one, and the other session's   *)
(* steps may fall in between.  pending[c] is the request of session c that *)
(* has been validated and not yet saved.                                   *)

RaceClients == {"c1", "c2"}

PendingRequest(op, user, username, email) ==
    [op |-> op, user |-> user, username |-> username, email |-> email]

(* POST /register/ up to and including form.is_valid() *)
RegisterPostValidate(c, username, email, pwOk) ==
    /\ pending[c] = None
    /\ IF RegisterFormValid(username, email, pwOk)
       THEN /\ pending' = [pending EXCEPT ![c] =
                 Some(PendingRequest("register", session[c], username, email))]
            /\ UNCHANGED last
       ELSE /\ last' = AccountResponse("register", "POST", session[c], 200,
                                       MsgCorrect,
                                       RegisterPost(username, email, pwOk))
            /\ UNCHANGED pending
    /\ UNCHANGED <<users, profiles, session, todos, nextPk, creator, today>>

(* POST /register/ from form.save() on: the INSERT fails on the unique     *)
(* constraint of User.username, which is the only one the table has        *)
RegisterPostSave(c) ==
    /\ pending[c] # None
    /\ pending[c][1].op = "register"
    /\ LET req == pending[c][1]
       IN  IF UsernameExists(req.username, None)
           THEN /\ last' = AccountResponse("register", "POST", session[c], 500,
                                           MsgNone,
                                           RegisterPost(req.username,
                                                        req.email, TRUE))
                /\ UNCHANGED <<users, profiles, session>>
           ELSE /\ users' = Append(users, [username |-> req.username,
                                           email |->
                                             normalize_email(req.email)])
                /\ profiles' = GetOrCreateProfile(profiles, Len(users) + 1)
                /\ session' = [session EXCEPT ![c] = Some(Len(users) + 1)]
                /\ last' = AccountResponse("register", "POST", session[c], 302,
                                           MsgWelcome,
                                           RegisterPost(req.username,
                                                        req.email, TRUE))
    /\ pending' = [pending EXCEPT ![c] = None]
    /\ UNCHANGED <<todos, nextPk, creator, today>>

(* POST /profile/ without a file, up to and including the two is_valid()   *)
ProfilePostValidate(c, username, email) ==
    /\ pending[c] = None
    /\ IsAuthenticated(c)
    /\ LET u == session[c][1]
           table == GetOrCreateProfile(profiles, u)
           u_valid == UserUpdateFormValid(session[c], username, email)
           p_valid == clean_image(BoundImage(table[u], None))
       IN  /\ profiles' = table
           /\ IF u_valid /\ p_valid
              THEN /\ pending' = [pending EXCEPT ![c] =
                        Some(PendingRequest("profile", session[c], username,
                                            email))]
                   /\ UNCHANGED last
              ELSE /\ last' = AccountResponse("profile", "POST", session[c],
                                              200, MsgCorrect,
                                              ProfilePost(username, email, None))
                   /\ UNCHANGED pending
    /\ UNCHANGED <<users, session, todos, nextPk, creator, today>>

(* POST /profile/ from u_form.save() on *)
ProfilePostSave(c) ==
    /\ pending[c] # None
    /\ pending[c][1].op = "profile"
    /\ LET req == pending[c][1]
           u == req.user[1]
       IN  IF UsernameExists(req.username, req.user)
           THEN /\ last' = AccountResponse("profile", "POST", req.user, 500,
                                           MsgNone,
                                           ProfilePost(req.username, req.email,
                                                       None))
                /\ UNCHANGED <<users, profiles>>
           ELSE /\ users' = [users EXCEPT ![u] = [username |-> req.username,
                                                  email |->
                                                    normalize_email(req.email)]]
                /\ profiles' \in {[profiles EXCEPT ![u] = stored] :
                                    stored \in ProfileSave(profiles[u])}
                /\ last' = AccountResponse("profile", "POST", req.user, 302,
                                           MsgProfileUpdated,
                                           ProfilePost(req.username, req.email,
                                                       None))
    /\ pending' = [pending EXCEPT ![c] = None]
    /\ UNCHANGED <<session, todos, nextPk, creator, today>>

(* the server's date moves on *)
Tick ==
    /\ today < MaxDay
    /\ today' = today + 1
    /\ UNCHANGED <<users, profiles, session, todos, nextPk, creator, last,
                   pending>>

(* --------------------------- specifications --------------------------- *)

NoResponse == TaskResponse("", "", None, 0, 0, MsgNone, FALSE, {})

(* no request is between its validation and its save *)
NoRequests == <<>>

(* a fresh deployment: empty tables, nobody logged in *)
Init ==
    /\ users = <<>>
    /\ profiles = <<>>
    /\ session = [c \in Clients |-> None]
    /\ todos = <<>>
    /\ nextPk = 1
    /\ creator = <<>>
    /\ today = 0
    /\ last = NoResponse
    /\ pending = NoRequests

(* the deployment after ann and bob have registered and logged out, on a   *)
(* day on which day 0 is already past                                      *)
InitTwoUsers ==
    /\ users = << [username |-> "ann", email |-> "ann@x.io"],
                  [username |-> "bob", email |-> "Ann@x.io"] >>
    /\ profiles = (1 :> SavedDefault) @@ (2 :> SavedDefault)
    /\ session = [c \in Clients |-> None]
    /\ todos = <<>>
    /\ nextPk = 1
    /\ creator = <<>>
    /\ today = MaxDay
    /\ last = NoResponse
    /\ pending = NoRequests

(* a GET carries no form data *)
NoPost == TodoPost(<<>>, 0, None, 1, FALSE)

PostA == TodoPost(<<" ", "a", "b", "c", " ">>, 3, None, 2, TRUE)
PostB == TodoPost(<<"a", "b", "c">>, 5, Some(MaxDay), 1, FALSE)
PostShort == TodoPost(<<" ", "a", "b", " ">>, 3, None, 1, FALSE)

(* what the admin submits, and what the clients of SpecGate submit *)
AdminPosts == {PostA, PostB, PostShort}
GatePosts == {PostA, PostShort}

LoginNext ==
    \/ \E c \in Clients, u \in Usernames, ok \in BOOLEAN : Login(c, u, ok)
    \/ \E c \in Clients : logout_view(c)

ProfileNext ==
    \/ \E c \in Clients : profile(c, "GET", "", "", None)
    \/ \E c \in Clients, u \in Usernames, e \in Emails, f \in ImageUploads :
          profile(c, "POST", u, e, f)
    \/ \E c \in Clients, u \in Usernames, e \in Emails, f \in ImageUploads :
          profile_SaveRaises(c, u, e, f)

TaskRoutes(posts) ==
    \/ \E c \in Clients, s \in StatusParams, p \in PriorityParams :
          TodoList(c, s, p)
    \/ \E c \in Clients : TodoCreate(c, "GET", NoPost)
    \/ \E c \in Clients, post \in posts : TodoCreate(c, "POST", post)
    \/ \E c \in Clients, pk \in Pks : TodoUpdate(c, "GET", pk, NoPost)
    \/ \E c \in Clients, pk \in Pks, post \in posts :
          TodoUpdate(c, "POST", pk, post)
    \/ \E c \in Clients, pk \in Pks : TodoDelete(c, "GET", pk, FALSE, "delete")
    \/ \E c \in Clients, pk \in Pks, err \in BOOLEAN, d \in DeleteDispatch :
          TodoDelete(c, "POST", pk, err, d)
    \/ \E c \in Clients, pk \in Pks, err \in BOOLEAN :
          TodoDelete(c, "DELETE", pk, err, "delete")
    \/ \E c \in Clients, m \in Methods, pk \in Pks : toggle_completion(c, m, pk)

AdminNext ==
    \/ \E post \in AdminPosts : AdminAdd(post)
    \/ \E pk \in Pks, post \in AdminPosts : AdminChange(pk, post)
    \/ \E pk \in Pks : AdminDelete(pk)
    \/ \E pks \in SUBSET Pks : AdminDeleteSelected(pks)

(* the task routes and the admin site, used by two registered accounts *)
Next == LoginNext \/ TaskRoutes(TodoPosts) \/ AdminNext

Spec == InitTwoUsers /\ [][Next]_vars

(* every route behind the login gate, used by two registered accounts *)
GateNext == LoginNext \/ ProfileNext \/ TaskRoutes(GatePosts)

SpecGate == InitTwoUsers /\ [][GateNext]_vars

(* the account routes, from a fresh deployment *)
AccountNext ==
    \/ \E c \in Clients, u \in Usernames, e \in Emails, ok \in BOOLEAN :
          Register(c, u, e, ok)
    \/ LoginNext
    \/ ProfileNext

SpecAccount == Init /\ [][AccountNext]_vars

(* a stored task, as the list route reads it *)
TodoSample(user, completed, priority, due_date) ==
    [user |-> Some(user), title |-> <<"a", "b", "c">>, completed |-> completed,
     priority |-> priority, due_date |-> due_date]

(* the rows the task table may hold when the list route is exercised *)
TodoSamples ==
    { TodoSample(1, done, 3, None) : done \in BOOLEAN } \cup
    { TodoSample(1, done, 5, Some(0)) : done \in BOOLEAN } \cup
    { TodoSample(1, done, 3, Some(MaxDay)) : done \in BOOLEAN } \cup
    { TodoSample(2, done, 3, Some(0)) : done \in BOOLEAN }

(* the query strings of the list route: every status branch, and priority *)
(* values that are absent, digits, digits with a leading zero, signed, not *)
(* a number, an Arabic-Indic three, a fullwidth five and a superscript two *)
ListStatusParams == {"all", "active", "completed", "done"}
ListPriorityParams ==
    {<<>>, <<"3">>, <<"5">>, <<"0", "5">>, <<"-", "3">>, <<"x">>,
     <<"U+0663">>, <<"U+FF15">>, <<"U+00B2">>}

(* ann and bob registered, the task table already filled, on day 0 *)
InitList ==
    /\ users = << [username |-> "ann", email |-> "ann@x.io"],
                  [username |-> "bob", email |-> "Ann@x.io"] >>
    /\ profiles = (1 :> SavedDefault) @@ (2 :> SavedDefault)
    /\ session = [c \in Clients |-> None]
    /\ todos \in [Pks -> TodoSamples]
    /\ nextPk = MaxTodos + 1
    /\ creator = [pk \in Pks |-> todos[pk].user]
    /\ today = 0
    /\ last = NoResponse
    /\ pending = NoRequests

(* the list and toggle routes over a filled table, as the days pass *)
ListNext ==
    \/ LoginNext
    \/ \E c \in Clients, s \in ListStatusParams, p \in ListPriorityParams :
          TodoList(c, s, p)
    \/ \E c \in Clients, pk \in Pks : toggle_completion(c, "POST", pk)
    \/ Tick

SpecList == InitList /\ [][ListNext]_vars

(* the submissions of the task form when its validation is exercised: a   *)
(* padded title that is long enough with no due date and with every day of *)
(* the calendar, one that is long enough only with its padding, one with a *)
(* priority outside the choices, and one with a title one character longer *)
(* than max_length                                                         *)
DueDates == {None} \cup {Some(d) : d \in 0..MaxDay}
LongTitle(n) == [i \in 1..n |-> "a"]
DatePosts ==
    { TodoPost(<<" ", "a", " ", "b", " ">>, 3, d, 1, FALSE) : d \in DueDates }
    \cup
    { TodoPost(<<" ", "a", "b", " ">>, 3, None, 1, FALSE),
      TodoPost(<<"a", "b", "c">>, 0, None, 1, FALSE),
      TodoPost(LongTitle(MaxTitleLen + 1), 3, None, 1, FALSE) }

(* ann and bob registered, no task yet, on day 0 *)
InitDates ==
    /\ users = << [username |-> "ann", email |-> "ann@x.io"],
                  [username |-> "bob", email |-> "Ann@x.io"] >>
    /\ profiles = (1 :> SavedDefault) @@ (2 :> SavedDefault)
    /\ session = [c \in Clients |-> None]
    /\ todos = <<>>
    /\ nextPk = 1
    /\ creator = <<>>
    /\ today = 0
    /\ last = NoResponse
    /\ pending = NoRequests

(* the create and update forms submitted as the days pass *)
DatesNext ==
    \/ LoginNext
    \/ \E c \in Clients, post \in DatePosts : TodoCreate(c, "POST", post)
    \/ \E c \in Clients, pk \in Pks, post \in DatePosts :
          TodoUpdate(c, "POST", pk, post)
    \/ Tick

SpecDates == InitDates /\ [][DatesNext]_vars

(* an uploaded file: its name, its byte size and the picture's dimensions *)
ImageFile(name, size, w, h) == [name |-> name, size |-> size, w |-> w, h |-> h]

(* the files posted when the picture pipeline is exercised: pictures one   *)
(* pixel over the limit either way, far over it, very wide, very tall, at  *)
(* and under the limit, pictures whose exact share of 300 falls halfway    *)
(* between two pixels (299x600, 301x600, 450x2000, 600x299), one over the  *)
(* limit both ways, files at and one byte over the size limit, and names   *)
(* in mixed case, with two dots, and with extensions not allowed           *)
ImageSamples ==
    { None,
      Some(ImageFile(<<"l", ".", "P", "N", "G">>, 4000000, 4000, 2000)),
      Some(ImageFile(<<"a", ".", "J", "p", "g">>, MaxImageBytes, 301, 300)),
      Some(ImageFile(<<"j", ".", "j", "p", "e", "g">>, 1000, 300, 301)),
      Some(ImageFile(<<"g", ".", "g", "i", "f">>, 1000, 300, 300)),
      Some(ImageFile(<<"w", ".", "w", "e", "b", "p">>, 1000, 100, 50)),
      Some(ImageFile(<<"t", ".", "b", ".", "p", "n", "g">>, 1000, 4000, 1)),
      Some(ImageFile(<<"n", ".", "p", "n", "g">>, 1000, 1, 4000)),
      Some(ImageFile(<<"s", ".", "j", "p", "g">>, 1000, 299, 450)),
      Some(ImageFile(<<"p", ".", "j", "p", "g">>, 1000, 299, 600)),
      Some(ImageFile(<<"q", ".", "j", "p", "g">>, 1000, 301, 600)),
      Some(ImageFile(<<"r", ".", "j", "p", "g">>, 1000, 450, 2000)),
      Some(ImageFile(<<"u", ".", "j", "p", "g">>, 1000, 600, 299)),
      Some(ImageFile(<<"v", ".", "j", "p", "g">>, 1000, 799, 601)),
      Some(ImageFile(<<"h", ".", "j", "p", "g">>, MaxImageBytes + 1, 400, 400)),
      Some(ImageFile(<<"x", ".", "b", "m", "p">>, 2000, 100, 100)),
      Some(ImageFile(<<"z", ".", "p", "n", "g", ".", "b", "m", "p">>, 2000,
                     400, 100)) }

(* the file media/default.jpg is not part of the repository: pictures it   *)
(* may be, at, under and over the limit                                    *)
DefaultImages ==
    { DefaultImage,
      ImageFile(<<"d", ".", "j", "p", "g">>, 1000, 100, 100),
      ImageFile(<<"d", ".", "j", "p", "g">>, 1000, 600, 400) }

(* ann and bob registered: their profiles hold the default picture as the  *)
(* first Profile.save left it                                              *)
InitImage ==
    /\ users = << [username |-> "ann", email |-> "ann@x.io"],
                  [username |-> "bob", email |-> "Ann@x.io"] >>
    /\ \E d \in DefaultImages : \E stored \in ProfileSave(d) :
          profiles = (1 :> stored) @@ (2 :> stored)
    /\ session = [c \in Clients |-> None]
    /\ todos = <<>>
    /\ nextPk = 1
    /\ creator = <<>>
    /\ today = MaxDay
    /\ last = NoResponse
    /\ pending = NoRequests

(* the account data posted with the files: ann's own and bob's own, each   *)
(* refused when the other posts it                                         *)
ImageAccounts ==
    { [username |-> "ann", email |-> "ann@x.io"],
      [username |-> "bob", email |-> "Ann@x.io"] }

(* the profile route with every sample file, used by two registered        *)
(* accounts, Pillow raising or not                                         *)
ImageNext ==
    \/ LoginNext
    \/ \E c \in Clients : profile(c, "GET", "", "", None)
    \/ \E c \in Clients, a \in ImageAccounts, f \in ImageSamples :
          profile(c, "POST", a.username, a.email, f)
    \/ \E c \in Clients, a \in ImageAccounts, f \in ImageSamples :
          profile_SaveRaises(c, a.username, a.email, f)

SpecImage == InitImage /\ [][ImageNext]_vars

(* a fresh deployment with two sessions open *)
InitRace ==
    /\ users = <<>>
    /\ profiles = <<>>
    /\ session = [c \in RaceClients |-> None]
    /\ todos = <<>>
    /\ nextPk = 1
    /\ creator = <<>>
    /\ today = 0
    /\ last = NoResponse
    /\ pending = [c \in RaceClients |-> None]

(* registration and profile-edit requests of the two sessions, interleaved *)
(* statement by statement                                                  *)
RaceNext ==
    \/ \E c \in RaceClients, u \in Usernames, e \in Emails, ok \in BOOLEAN :
          RegisterPostValidate(c, u, e, ok)
    \/ \E c \in RaceClients : RegisterPostSave(c)
    \/ \E c \in RaceClients, u \in Usernames, e \in Emails :
          ProfilePostValidate(c, u, e)
    \/ \E c \in RaceClients : ProfilePostSave(c)

SpecRace == InitRace /\ [][RaceNext]_vars

(* ------------------------------- claims ------------------------------- *)

TaskOps == {"list", "create", "update", "delete", "toggle"}
PkOps == {"update", "delete", "toggle"}

(* the answer to a request whose owner-scoped lookup missed: a 404, or,    *)
(* from delete(), the redirect with the error notification                 *)
NotFoundAnswer(r) ==
    /\ ~r.found
    /\ \/ r.status = 404
       \/ /\ r.op = "delete" /\ r.method \in {"POST", "DELETE"}
          /\ r.status = 302 /\ r.msg = MsgDeleteError

(* a delete request that went through: the redirect after the deletion,    *)
(* with the success notification of delete() or, from form_valid(), none   *)
DeleteSucceeded(r) ==
    /\ r.op = "delete" /\ r.method \in {"POST", "DELETE"}
    /\ r.status = 302 /\ r.found
    /\ r.msg \in {MsgDeleted, MsgNone}

SameTodo(pk) == pk \in DOMAIN todos' /\ todos'[pk] = todos[pk]

(* a request answered as not found: a 404, or the not-found notification   *)
AnsweredNotFound(r) ==
    /\ ~r.found
    /\ r.status = 404 \/ r.msg = MsgNotFound

(* C1: a task created through the create handler is owned by the          *)
(* requesting user, and a list, update, delete or toggle request of any    *)
(* other logged-in user neither lists it nor changes or removes it; such   *)
(* a request on its id is answered as not found.                           *)
C1_OwnerIsolation ==
    [][ (last'.op \in TaskOps /\ last'.user # None) =>
          /\ \A pk \in DOMAIN todos' \ DOMAIN todos :
                todos'[pk].user = last'.user
          /\ \A pk \in DOMAIN todos :
                todos[pk].user # last'.user =>
                   /\ SameTodo(pk)
                   /\ pk \notin last'.listed
                   /\ (last'.op \in PkOps /\ last'.pk = pk)
                         => AnsweredNotFound(last') ]_vars

(* the part of C1 that is about the store and the list: what another user  *)
(* requests neither lists the task nor changes or removes it               *)
OwnerIsolationOfState ==
    [][ (last'.op \in TaskOps /\ last'.user # None) =>
          /\ \A pk \in DOMAIN todos' \ DOMAIN todos :
                todos'[pk].user = last'.user
          /\ \A pk \in DOMAIN todos :
                todos[pk].user # last'.user =>
                   /\ SameTodo(pk)
                   /\ pk \notin last'.listed
                   /\ (last'.op \in PkOps /\ last'.pk = pk)
                         => ~last'.found ]_vars

(* C2: every stored task has an owner, whatever create, update, toggle,    *)
(* delete and admin requests were made.                                    *)
C2_OwnerNotNull == \A pk \in DOMAIN todos : todos[pk].user # None

(* the admin's add form was submitted valid and refused, tasks exist       *)
C2_Witness ==
    /\ last.op = "admin_add" /\ last.status = 500
    /\ DOMAIN todos # {}

(* C3: a successful delete removes exactly the task it names; a removed    *)
(* task stays removed, is never listed, and every later update, delete or  *)
(* toggle request on its id is answered as not found.                      *)
C3_DeleteIsFinal ==
    [][ /\ DeleteSucceeded(last') =>
             /\ last'.pk \in DOMAIN todos
             /\ last'.pk \notin DOMAIN todos'
             /\ \A pk \in DOMAIN todos \ {last'.pk} : SameTodo(pk)
        /\ \A pk \in 1..(nextPk - 1) :
             pk \notin DOMAIN todos =>
                /\ pk \notin DOMAIN todos'
                /\ pk \notin last'.listed
                /\ (last'.op \in PkOps /\ last'.pk = pk /\ last'.user # None)
                      => NotFoundAnswer(last') ]_vars

(* a logged-in user's request on the id of a deleted task was answered,    *)
(* while another task is still stored                                      *)
C3_Witness ==
    /\ last.op \in PkOps /\ last.user # None
    /\ last.pk \in 1..(nextPk - 1)
    /\ last.pk \notin DOMAIN todos
    /\ DOMAIN todos # {}

(* C4: one successful toggle negates completed and changes nothing else    *)
(* of the task; a second one right after it restores the value from        *)
(* before the first.                                                       *)
ToggleDone(r) == r.op = "toggle" /\ r.found /\ r.status = 302

C4_ToggleTwice ==
    [][ ToggleDone(last') =>
          /\ last'.pk \in DOMAIN todos /\ last'.pk \in DOMAIN todos'
          /\ todos'[last'.pk] =
                [todos[last'.pk] EXCEPT !.completed = ~todos[last'.pk].completed]
          /\ last'.msg = IF todos'[last'.pk].completed
                         THEN MsgCompleted ELSE MsgActive
          /\ (ToggleDone(last) /\ last.pk = last'.pk) =>
                todos'[last'.pk].completed = (last.msg = MsgActive) ]_vars

(* a task was toggled back to active *)
C4_Witness ==
    /\ ToggleDone(last) /\ last.msg = MsgActive
    /\ last.pk \in DOMAIN todos /\ ~todos[last.pk].completed

(* C5: update and toggle requests, accepted or not, leave the owner of     *)
(* every task as it was, and the owner of a stored task is always the user *)
(* whose create request made it.                                           *)
C5_OwnerFixed ==
    [][ /\ last'.op \in {"update", "toggle"} =>
             \A pk \in DOMAIN todos :
                pk \in DOMAIN todos' /\ todos'[pk].user = todos[pk].user
        /\ \A pk \in DOMAIN todos' : todos'[pk].user = creator'[pk] ]_vars

(* user 2 had an update accepted whose body (PostB) names user 1 as owner  *)
C5_Witness ==
    /\ last.op = "update" /\ last.msg = MsgUpdated
    /\ last.user = Some(2)
    /\ todos[last.pk].priority = PostB.priority
    /\ todos[last.pk].user = Some(2)

(* C6: a registration whose email is exactly that of an existing user is   *)
(* rejected and adds no user and no profile; one with an unused email, an  *)
(* unused username and accepted passwords adds exactly one user, exactly   *)
(* one profile (that user's), and logs the requester in as that user.      *)
EmailTaken(email) == \E i \in 1..Len(users) : users[i].email = email
NameTaken(name) == \E i \in 1..Len(users) : users[i].username = name

C6_Register ==
    [][ last'.op = "register" =>
          IF EmailTaken(last'.form.email)
          THEN /\ last'.status = 200
               /\ UNCHANGED <<users, profiles, session>>
          ELSE IF ~NameTaken(last'.form.username) /\ last'.form.pwOk
          THEN /\ last'.status = 302
               /\ users' = Append(users, [username |-> last'.form.username,
                                          email |-> last'.form.email])
               /\ DOMAIN profiles' = DOMAIN profiles \cup {Len(users')}
               /\ Len(users') \notin DOMAIN profiles
               /\ \A u \in DOMAIN profiles : profiles'[u] = profiles[u]
               /\ \A c \in Clients :
                     session'[c] # session[c] => session'[c] = Some(Len(users'))
               /\ \E c \in Clients : session'[c] = Some(Len(users'))
          ELSE UNCHANGED <<users, profiles, session>> ]_vars

(* a registration was rejected for its email alone *)
C6_Witness ==
    /\ last.op = "register" /\ last.status = 200
    /\ EmailTaken(last.form.email)
    /\ ~NameTaken(last.form.username) /\ last.form.pwOk

(* C7: a profile POST saves the account fields and the image together or   *)
(* not at all: when either sub-form is invalid the user row and the        *)
(* profile row are unchanged, and otherwise both are written.              *)
ProfilePosted(r) == r.op = "profile" /\ r.method = "POST" /\ r.user # None

AccountFormBad(u, form) ==
    \E i \in 1..Len(users) :
       /\ i # u
       /\ users[i].username = form.username \/ users[i].email = form.email

ImageFormBad(form) ==
    /\ form.upload # None
    /\ \/ form.upload[1].size > MaxImageBytes
       \/ Lower(LastPart(form.upload[1].name)) \notin valid_extensions

C7_ProfileAtomic ==
    [][ ProfilePosted(last') =>
          LET u == last'.user[1]
              form == last'.form
          IN  IF AccountFormBad(u, form) \/ ImageFormBad(form)
              THEN /\ users' = users
                   /\ profiles' = profiles
                   /\ last'.status = 200
              ELSE /\ users'[u] = [username |-> form.username,
                                   email |-> form.email]
                   /\ form.upload # None =>
                         /\ profiles'[u].name = form.upload[1].name
                         /\ profiles'[u].size > 0
                         /\ profiles'[u].w <= MaxSide
                         /\ profiles'[u].h <= MaxSide
                   /\ last'.status = 302 ]_vars

(* the part of C7 that is about validation: a post with an invalid        *)
(* sub-form changes neither the user row nor the profile row               *)
ProfileRefusedUnchanged ==
    [][ ProfilePosted(last') =>
          LET u == last'.user[1]
              form == last'.form
          IN  (AccountFormBad(u, form) \/ ImageFormBad(form)) =>
                 /\ users' = users
                 /\ profiles' = profiles
                 /\ last'.status = 200 ]_vars

(* C8: the delete handler tells three failures apart: a lookup miss gives  *)
(* the not-found notification, a failing ownership re-check the            *)
(* no-permission one, a store error the unexpected-error one; a failed     *)
(* delete removes nothing.                                                 *)
DeletePosted(r) ==
    r.op = "delete" /\ r.method \in {"POST", "DELETE"} /\ r.user # None

C8_DeleteNotifications ==
    [][ (DeletePosted(last') /\ ~DeleteSucceeded(last')) =>
          /\ todos' = todos
          /\ last'.msg \in {MsgNotFound, MsgNoPermission, MsgDeleteError}
          /\ ~last'.found <=> last'.msg = MsgNotFound ]_vars

(* C9: no GET request to a task route changes the Todo table.              *)
C9_GetIsSafe ==
    [][ (last'.op \in TaskOps /\ last'.method = "GET") => todos' = todos ]_vars

(* C10: while nobody is logged in, a request to the list, create, update,  *)
(* delete, toggle or profile route is redirected to the login page and     *)
(* changes no task, user or profile; a logout ends the session, and a      *)
(* session only starts with an accepted login or registration.             *)
GatedOps == TaskOps \cup {"profile"}

Anonymous == \A c \in Clients : session[c] = None

C10_LoginGate ==
    [][ /\ (Anonymous /\ last'.op \in GatedOps) =>
             /\ last' = LoginRedirect(last'.op, last'.method, last'.pk)
             /\ UNCHANGED <<users, profiles, todos, session>>
        /\ (last'.op = "logout" /\ ~Anonymous) =>
             \E c \in Clients : session[c] # None /\ session'[c] = None
        /\ \A c \in Clients :
             (session'[c] # session[c] /\ session'[c] # None) =>
                last'.op \in {"login", "register"} /\ last'.status = 302 ]_vars

(* after a logout, a toggle request on a stored task was redirected *)
C10_Witness ==
    /\ Anonymous
    /\ last = LoginRedirect("toggle", "POST", last.pk)
    /\ last.pk \in DOMAIN todos


(* the integer a priority query parameter gives, None when it gives none:  *)
(* a parameter that is absent or is not a string of decimal digits         *)
GivenInteger(priority) ==
    CASE priority = <<"3">> -> Some(3)
      [] priority = <<"5">> -> Some(5)
      [] priority = <<"0", "5">> -> Some(5)
      [] priority = <<"U+0663">> -> Some(3)
      [] priority = <<"U+FF15">> -> Some(5)
      [] OTHER -> None

StatusMatches(t, status) ==
    CASE status = "active" -> ~t.completed
      [] status = "completed" -> t.completed
      [] OTHER -> TRUE

PriorityMatches(t, priority) ==
    GivenInteger(priority) = None \/ t.priority = GivenInteger(priority)[1]

OwnTasks(u) == {pk \in DOMAIN todos : todos[pk].user = u}

(* an authenticated user requested the list on this step *)
ListRequested ==
    /\ last'.op = "list"
    /\ last'.user # None
    /\ today' = today
    /\ todos' = todos

(* and the list route answered it with the page *)
ListAnswered == ListRequested /\ last'.status = 200

(* C11: the list route returns exactly the current user's own tasks that   *)
(* match the status filter (active, completed, anything else is all) and   *)
(* whose priority equals the integer the priority parameter gives, and the *)
(* four counts are those of all the user's tasks whatever the filters are. *)
C11_ListFilter ==
    [][ ListRequested =>
          LET u == last'.user
              q == last'.form
              own == OwnTasks(u)
          IN  /\ last'.listed =
                    {pk \in own : /\ StatusMatches(todos[pk], q.status)
                                  /\ PriorityMatches(todos[pk], q.priority)}
              /\ last'.counts =
                    << Cardinality(own),
                       Cardinality({pk \in own : ~todos[pk].completed}),
                       Cardinality({pk \in own : todos[pk].completed}),
                       Cardinality({pk \in own :
                           /\ todos[pk].due_date # None
                           /\ ~todos[pk].completed
                           /\ todos[pk].due_date[1] < today}) >> ]_vars

(* what the claim says of one task on one day *)
LateOn(t, day) == t.due_date # None /\ ~t.completed /\ t.due_date[1] < day

(* the toggle route marked task pk completed on this step *)
ToggledToCompleted(pk) ==
    /\ last'.op = "toggle" /\ last'.pk = pk /\ last'.status = 302
    /\ pk \in DOMAIN todos /\ ~todos[pk].completed
    /\ todos'[pk].completed

(* C13: is_overdue is true exactly when the task has a due date, is not    *)
(* completed and the due date is before today: a task due today is not     *)
(* overdue, it becomes overdue when the date advances, toggling it to      *)
(* completed makes it not overdue, and the list's overdue count counts the *)
(* user's tasks for which it is true.                                      *)
C13_Overdue ==
    [][ /\ \A pk \in DOMAIN todos' :
             is_overdue(todos'[pk], today') <=> LateOn(todos'[pk], today')
        /\ \A pk \in DOMAIN todos :
             todos[pk].due_date = Some(today) => ~is_overdue(todos[pk], today)
        /\ today' > today =>
             \A pk \in DOMAIN todos :
                (todos[pk].due_date = Some(today) /\ ~todos[pk].completed)
                  => is_overdue(todos'[pk], today')
        /\ \A pk \in DOMAIN todos :
             ToggledToCompleted(pk) => ~is_overdue(todos'[pk], today')
        /\ ListAnswered =>
             last'.counts[4] =
               Cardinality({pk \in OwnTasks(last'.user) :
                              LateOn(todos[pk], today)}) ]_vars

(* the date has advanced past a task's due date and its owner has toggled  *)
(* it to completed, while another of the owner's tasks is still late       *)
C13_Witness ==
    /\ today > 0
    /\ last.op = "toggle" /\ last.status = 302
    /\ last.pk \in DOMAIN todos
    /\ todos[last.pk].due_date = Some(0)
    /\ todos[last.pk].completed
    /\ ~is_overdue(todos[last.pk], today)
    /\ \E pk \in DOMAIN todos : pk # last.pk /\ is_overdue(todos[pk], today)
(* the positions of a title's first and last character that is not a     *)
(* blank, the number of characters from the one to the other, and the      *)
(* title without its leading and trailing blanks                           *)
FirstSolid(title) ==
    CHOOSE i \in 1..Len(title) :
       title[i] # " " /\ \A j \in 1..(i - 1) : title[j] = " "
LastSolid(title) ==
    CHOOSE i \in 1..Len(title) :
       title[i] # " " /\ \A j \in (i + 1)..Len(title) : title[j] = " "
IsBlank(title) == \A i \in 1..Len(title) : title[i] = " "

TrimmedLen(title) ==
    IF IsBlank(title) THEN 0 ELSE LastSolid(title) - FirstSolid(title) + 1

Trimmed(title) ==
    IF IsBlank(title) THEN <<>>
    ELSE SubSeq(title, FirstSolid(title), LastSolid(title))

(* what the claim asks of a submission on the day it is validated *)
Acceptable(post, day) ==
    /\ TrimmedLen(post.title) >= 3
    /\ post.due_date = None \/ post.due_date[1] >= day

(* a logged-in user's create submission, or update submission for a task   *)
(* of their own, was validated on this step                                *)
Submitted ==
    /\ last'.op \in {"create", "update"}
    /\ last'.method = "POST"
    /\ last'.user # None
    /\ last'.form # <<>>
    /\ today' = today

(* the submission of this step is stored as posted, and nothing else is    *)
(* touched                                                                 *)
StoredAsPosted ==
    LET post == last'.form
        pk == last'.pk
    IN  /\ pk \in DOMAIN todos'
        /\ todos'[pk].title = Trimmed(post.title)
        /\ todos'[pk].priority = post.priority
        /\ todos'[pk].due_date = post.due_date
        /\ todos'[pk].user = last'.user
        /\ \A k \in DOMAIN todos : k # pk => todos'[k] = todos[k]

(* C12 as stated: a create or update submission is persisted if and only   *)
(* if its trimmed title has at least 3 characters and its due date is      *)
(* absent or not earlier than the day of validation; a rejected submission *)
(* leaves the store unchanged.  Read for submissions whose priority is one *)
(* of the choices, which the claim does not speak of.                      *)
C12_AsStated ==
    [][ (Submitted /\ last'.form.priority \in 1..5) =>
          LET saved == last'.status = 302
          IN  /\ saved <=> Acceptable(last'.form, today)
              /\ saved => StoredAsPosted
              /\ ~saved => todos' = todos /\ nextPk' = nextPk ]_vars

(* C12 amended: a create or update submission is persisted if and only if  *)
(* its trimmed title has at least 3 and at most 200 characters, its        *)
(* priority is one of the choices 1..5 and its due date is absent or not   *)
(* earlier than the day of validation (today accepted, yesterday           *)
(* rejected), also when an update resubmits a stored due date that has     *)
(* become past; a rejected submission leaves the store unchanged.          *)
C12_Validation ==
    [][ Submitted =>
          LET post == last'.form
              saved == last'.status = 302
          IN  /\ saved <=> /\ Acceptable(post, today)
                            /\ TrimmedLen(post.title) <= 200
                            /\ post.priority \in 1..5
              /\ saved => StoredAsPosted
              /\ ~saved => todos' = todos /\ nextPk' = nextPk ]_vars

(* an update that resubmits the task's stored due date, after that date    *)
(* has become past, is rejected and the task keeps it                      *)
C12_Witness ==
    /\ last.op = "update" /\ last.method = "POST"
    /\ last.status = 200
    /\ last.form # <<>>
    /\ last.pk \in DOMAIN todos
    /\ TrimmedLen(last.form.title) >= 3
    /\ last.form.priority = todos[last.pk].priority
    /\ last.form.due_date # None
    /\ last.form.due_date = todos[last.pk].due_date
    /\ last.form.due_date[1] < today
(* the part of a file name after its last dot, the whole name without one *)
ExtensionOf(name) ==
    LET dots == {i \in 1..Len(name) : name[i] = "."}
    IN  IF dots = {} THEN name
        ELSE SubSeq(name, (CHOOSE i \in dots : \A j \in dots : j <= i) + 1,
                    Len(name))

(* two texts equal up to the case of their letters *)
CasePairs == { <<"J", "j">>, <<"P", "p">>, <<"G", "g">>, <<"N", "n">>,
               <<"B", "b">>, <<"M", "m">> }
SameLetter(a, b) == a = b \/ <<a, b>> \in CasePairs \/ <<b, a>> \in CasePairs
SameIgnoringCase(s, t) ==
    Len(s) = Len(t) /\ \A i \in 1..Len(s) : SameLetter(s[i], t[i])

AllowedExtensions ==
    { <<"j", "p", "g">>, <<"j", "p", "e", "g">>, <<"p", "n", "g">>,
      <<"g", "i", "f">>, <<"w", "e", "b", "p">> }

(* the file the claim says must be rejected *)
UploadRefused(file) ==
    \/ file.size > 5 * 1024 * 1024
    \/ ~\E e \in AllowedExtensions : SameIgnoringCase(ExtensionOf(file.name), e)

(* old -> new keeps the aspect ratio as well as whole pixels allow: the    *)
(* longer side is 300 and the other is within one pixel of its exact share *)
KeepsAspect(old, new) ==
    IF old.w >= old.h
    THEN /\ new.w = 300
         /\ new.h >= 1
         /\ new.h * old.w - 300 * old.h < old.w
         /\ 300 * old.h - new.h * old.w < old.w
    ELSE /\ new.h = 300
         /\ new.w >= 1
         /\ new.w * old.h - 300 * old.w < old.h
         /\ 300 * old.w - new.w * old.h < old.h

OverLimit(img) == img.w > 300 \/ img.h > 300

(* C14: after every completed Profile save the stored image is at most 300 *)
(* wide and 300 high: a picture with a side over 300 is stored downscaled  *)
(* with its aspect ratio kept and under its own name, one already within   *)
(* 300x300 is stored unchanged, and an upload over 5 MB or with an         *)
(* extension outside jpg, jpeg, png, gif, webp (in any case) is refused    *)
(* with nothing saved.  No stored picture is over the limit, and a stored  *)
(* file is without content only when the save that wrote it did not        *)
(* complete.                                                               *)
C14_ImageBounds ==
    [][ /\ ProfilePosted(last') =>
             LET u == last'.user[1]
                 upload == last'.form.upload
                 given == IF upload # None THEN upload[1] ELSE profiles[u]
             IN  /\ (upload # None /\ UploadRefused(upload[1])) =>
                       /\ last'.status = 200
                       /\ users' = users
                       /\ \A v \in DOMAIN profiles :
                             profiles'[v] = profiles[v]
                 /\ last'.status = 302 =>
                       /\ upload # None => ~UploadRefused(upload[1])
                       /\ profiles'[u].w <= 300 /\ profiles'[u].h <= 300
                       /\ profiles'[u].name = given.name
                       /\ profiles'[u].size > 0
                       /\ ~OverLimit(given) => profiles'[u] = given
                       /\ OverLimit(given) => KeepsAspect(given, profiles'[u])
        /\ \A u \in DOMAIN profiles' :
             /\ ~OverLimit(profiles'[u])
             /\ profiles'[u].size = 0 =>
                   \/ u \in DOMAIN profiles /\ profiles'[u] = profiles[u]
                   \/ /\ ProfilePosted(last') /\ last'.status = 500
                      /\ last'.user = Some(u) ]_vars

(* an accepted 299x600 upload, whose exact width is 149.5, was stored      *)
(* 150x300 under its own name                                              *)
C14_Witness ==
    /\ ProfilePosted(last) /\ last.status = 302
    /\ last.form.upload # None
    /\ last.form.upload[1].w = 299 /\ last.form.upload[1].h = 600
    /\ profiles[last.user[1]].name = last.form.upload[1].name
    /\ profiles[last.user[1]].w = 150
    /\ profiles[last.user[1]].h = 300

(* C15: no two users ever hold the same email address, whatever the        *)
(* interleaving of registration and profile-edit requests of different     *)
(* sessions whose uniqueness check and save are separate steps.            *)
C15_UniqueEmails ==
    \A i, j \in 1..Len(users) : i # j => users[i].email # users[j].email
====
